---- MODULE Spec2Model ----
(***************************************************************************)
(* A model of the consistent-hashing ring of src/src/lib.rs (ring-rs).     *)
(*                                                                         *)
(* The ring is one mutable object.  Every public method of Ring is one     *)
(* action that models the whole method body, including the panics the      *)
(* body can raise (Option::unwrap on None, slice indexing out of bounds,   *)
(* integer overflow when overflow checks are compiled in) and the case     *)
(* where the scan of get_least never returns.                              *)
(*                                                                         *)
(* Representation choices, all stated where they are used:                 *)
(*  - a u64 is an integer r of the model: r >= 0 stands for r, r < 0       *)
(*    stands for 2^64 + r (a value that has wrapped below zero);           *)
(*  - an f64 is a record: a rational, a rational multiple of 2^64,         *)
(*    +infinity or NaN;                                                    *)
(*  - the Blake2b digest is a table of its real values on the strings      *)
(*    the model uses, shifted right by 33 bits.                            *)
(***************************************************************************)
EXTENDS Integers, Sequences, FiniteSets, TLC

VARIABLES
    config,          \* Ring.config: [replication_factor, load]
    hashes,          \* Ring.hashes: Vec<u64>
    host_by_hash,    \* Ring.host_by_hash: hash -> the host it refers to
    host_by_name,    \* Ring.host_by_name: name -> Host [name, load]
    load,            \* Ring.load: the aggregate load (u64)
    overflow_checks, \* the build: TRUE panics on u64 overflow, FALSE wraps
    status,          \* "running", "panicked" or "hung" (a call never returns)
    call,            \* the last call made on the ring
    ret              \* what the last call returned

vars == <<config, hashes, host_by_hash, host_by_name, load,
          overflow_checks, status, call, ret>>

ring == <<hashes, host_by_hash, host_by_name, load>>

-----------------------------------------------------------------------------
(* Bounds of the model. *)

\* set_load and inc_load keep every host load at or below MaxLoad.
MaxLoad == 2

\* the aggregate load is kept at or below MaxTotal
MaxTotal == 3

\* a wrapped u64 is followed down to 2^64 - MaxWrap
MaxWrap == 2

\* get_least followed by inc_load places at most MaxPlaced units of load
MaxPlaced == 4

\* host names; "a" and "a1" derive the same string "a10" when the
\* replication factor exceeds 10.
Names == {"a", "a1"}

\* the host names of the specification of membership changes alone
MoreNames == {"a", "a1", "b"}

\* the keys the lookup calls are made with; "a10" hashes exactly onto a
\* ring position.
Keys == {"a10", "8.8.8.8"}

\* Config::default() and two other configurations Ring::new accepts.
DefaultConfig == [replication_factor |-> 10, load |-> <<5, 4>>]

Configs ==
    { DefaultConfig,
      [replication_factor |-> 11, load |-> <<5, 4>>],
      [replication_factor |-> 10, load |-> <<1, 2>>] }

-----------------------------------------------------------------------------
(* u64 arithmetic.  r >= 0 is the number r; r < 0 is 2^64 + r. *)

\* u64::MAX, 2^64 - 1
U64Max == 0 - 1

\* the loads set_load is called with: the small ones and the largest
LoadValues == (0 .. MaxLoad) \cup {U64Max}

\* x < y as u64
U64Lt(x, y) ==
    IF (x < 0) = (y < 0) THEN x < y ELSE y < 0

\* x + y does not fit a u64
AddOverflows(x, y) ==
    IF x >= 0 /\ y >= 0 THEN FALSE
    ELSE IF x < 0 /\ y < 0 THEN TRUE
    ELSE x + y >= 0

\* x - y is below zero
SubOverflows(x, y) == U64Lt(x, y)

-----------------------------------------------------------------------------
(* f64 values: [kind, num, den].  "fin" is num/den, "big" is               *)
(* (num/den) * 2^64, "inf" is +infinity, "nan" is NaN.                      *)

F64Fin(n, d) == [kind |-> "fin", num |-> n, den |-> d]

F64Big(n, d) == [kind |-> "big", num |-> n, den |-> d]

F64Inf == [kind |-> "inf", num |-> 1, den |-> 0]

F64NaN == [kind |-> "nan", num |-> 0, den |-> 0]

\* `x as f64` of a u64: a wrapped value within 1024 of 2^64 rounds to 2^64.
AsF64(x) == IF x >= 0 THEN F64Fin(x, 1) ELSE F64Big(1, 1)

\* x / (n as f64), n a collection length
F64DivLen(x, n) ==
    IF n = 0
    THEN IF x.kind = "fin" /\ x.num = 0 THEN F64NaN ELSE F64Inf
    ELSE [kind |-> x.kind, num |-> x.num, den |-> x.den * n]

\* x * (p/q)
F64Mul(x, f) ==
    IF x.kind \in {"fin", "big"}
    THEN [kind |-> x.kind, num |-> x.num * f[1], den |-> x.den * f[2]]
    ELSE x

\* x.ceil(); a multiple of 2^64 this size is already integral
F64Ceil(x) ==
    IF x.kind = "fin"
    THEN F64Fin((x.num + x.den - 1) \div x.den, 1)
    ELSE x

\* x == 0.0
F64IsZero(x) == x.kind = "fin" /\ x.num = 0

\* x <= y
F64Le(x, y) ==
    IF x.kind = "nan" \/ y.kind = "nan" THEN FALSE
    ELSE IF y.kind = "inf" THEN TRUE
    ELSE IF x.kind = "inf" THEN FALSE
    ELSE IF x.kind = y.kind THEN x.num * y.den <= y.num * x.den
    ELSE x.kind = "fin"

-----------------------------------------------------------------------------
(* Ring::hash: the first eight bytes of the Blake2b-512 digest read as a   *)
(* little-endian u64.  The table holds the real digests of the strings the *)
(* model hashes, shifted right by 33 bits; the shift keeps their order and *)
(* keeps them distinct.                                                    *)

HashTable ==
    ("a0" :> 800065663) @@ ("a1" :> 449197271) @@ ("a2" :> 463861804) @@
    ("a3" :> 2132074870) @@ ("a4" :> 1237749984) @@ ("a5" :> 1565093518) @@
    ("a6" :> 635519483) @@ ("a7" :> 1354868138) @@ ("a8" :> 1268314385) @@
    ("a9" :> 686866961) @@ ("a10" :> 540990084) @@ ("a11" :> 543563567) @@
    ("a12" :> 393209769) @@ ("a13" :> 311596570) @@ ("a14" :> 1697943528) @@
    ("a15" :> 1519476096) @@ ("a16" :> 929815480) @@ ("a17" :> 1567414262) @@
    ("a18" :> 558131137) @@ ("a19" :> 369908652) @@ ("a110" :> 237228618) @@
    ("a111" :> 1071756315) @@ ("b0" :> 2095117231) @@ ("b1" :> 2119887626) @@
    ("b2" :> 275135887) @@ ("b3" :> 863301258) @@ ("b4" :> 1532147486) @@
    ("b5" :> 1804918350) @@ ("b6" :> 1278591429) @@ ("b7" :> 926566426) @@
    ("b8" :> 1838434062) @@ ("b9" :> 522128814) @@ ("b10" :> 786590329) @@
    ("b11" :> 960400682) @@ ("/foo" :> 1412361345) @@ ("/bar" :> 111118821) @@
    ("8.8.8.8" :> 1766757433)

Hash(key) == HashTable[key]

\* Self::hash(&format!("{}{}", hostname, i))
Position(hostname, i) == Hash(hostname \o ToString(i))

\* the positions add(hostname) derives under the current configuration
Positions(hostname) ==
    { Position(hostname, i) : i \in 0 .. (config.replication_factor - 1) }

-----------------------------------------------------------------------------
(* Helpers on vectors and maps. *)

\* the indices (from 1) of s that hold x
IndicesOf(s, x) == { i \in 1 .. Len(s) : s[i] = x }

Min(S) == CHOOSE x \in S : \A y \in S : x <= y

\* Vec::remove(idx), idx counted from 1
RemoveAt(s, idx) ==
    [ i \in 1 .. (Len(s) - 1) |-> IF i < idx THEN s[i] ELSE s[i + 1] ]

\* HashMap::remove(&k)
MapRemove(m, k) == [ x \in DOMAIN m \ {k} |-> m[x] ]

\* HashMap::insert(k, v)
MapInsert(m, k, v) ==
    [ x \in DOMAIN m \cup {k} |-> IF x = k THEN v ELSE m[x] ]

\* a sort that leaves the vector as it is
SortNone(s) == s

RECURSIVE SortAsc(_)
\* Vec::sort(): the same elements, ascending
SortAsc(s) ==
    IF Len(s) = 0 THEN << >>
    ELSE LET m == Min({ s[i] : i \in 1 .. Len(s) })
             at == Min(IndicesOf(s, m))
         IN  <<m>> \o SortAsc(RemoveAt(s, at))

-----------------------------------------------------------------------------
(* Queries. *)

\* Ring::hosts
Hosts == DOMAIN host_by_name

\* Ring::replication_factor
ReplicationFactor == config.replication_factor

\* Ring::search with a strict comparison
SearchStrict(key) ==
    LET at == { i \in 1 .. Len(hashes) : hashes[i] > key }
    IN  IF at = {} THEN 0 ELSE Min(at) - 1

\* Ring::search, the index counted from 0 as in the source
Search(key) ==
    LET at == { i \in 1 .. Len(hashes) : hashes[i] >= key }
    IN  IF at = {} THEN 0 ELSE Min(at) - 1

\* Ring::avg_load: [panicked, val]
AvgLoad ==
    IF AddOverflows(load, 1) /\ overflow_checks
    THEN [panicked |-> TRUE, val |-> F64NaN]
    ELSE LET q == F64DivLen(AsF64(load + 1), Cardinality(DOMAIN host_by_name))
             l == IF F64IsZero(q) THEN F64Fin(1, 1) ELSE q
         IN  [panicked |-> FALSE, val |-> F64Ceil(F64Mul(l, config.load))]

\* what a call returns: tag is "Unit", "None", "Some" (with name), "F64"
\* (with val), "Panic" or "Hang"
Result(tag, name, val) == [tag |-> tag, name |-> name, val |-> val]

Unit == Result("Unit", "", F64Fin(0, 1))

None == Result("None", "", F64Fin(0, 1))

Some(name) == Result("Some", name, F64Fin(0, 1))

Panic == Result("Panic", "", F64Fin(0, 1))

Hang == Result("Hang", "", F64Fin(0, 1))

\* Ring::get
GetResult(key) ==
    IF DOMAIN host_by_hash = {} THEN None
    ELSE LET idx == Search(Hash(key))
         IN  IF idx + 1 > Len(hashes) THEN Panic
             ELSE IF hashes[idx + 1] \in DOMAIN host_by_hash
                  THEN Some(host_by_hash[hashes[idx + 1]])
                  ELSE None

\* the test of the scan with the comparison turned round
UnderCapInverted(hostload, avg) == F64Le(avg, AsF64(hostload + 1))

\* the test of the scan: (host.load + 1) as f64 <= avg_load
UnderCap(hostload, avg) == F64Le(AsF64(hostload + 1), avg)

RECURSIVE Scan(_, _, _)
\* the loop of Ring::get_least from index idx (counted from 0); seen holds
\* the indices the loop has tested.  Nothing changes while the loop runs,
\* so reaching an index a second time means it never returns.
Scan(idx, avg, seen) ==
    IF idx \in seen THEN Hang
    ELSE IF idx + 1 > Len(hashes) THEN Panic
    ELSE IF hashes[idx + 1] \notin DOMAIN host_by_hash THEN Panic
    ELSE LET name == host_by_hash[hashes[idx + 1]]
             hostload == host_by_name[name].load
         IN  IF AddOverflows(hostload, 1) /\ overflow_checks
             THEN Panic
             ELSE IF UnderCap(hostload, avg)
             THEN Some(name)
             ELSE Scan(IF idx + 1 >= Cardinality(DOMAIN host_by_hash)
                       THEN 0 ELSE idx + 1,
                       avg, seen \cup {idx})

\* Ring::get_least without the test for an empty index
GetLeastResultUnguarded(key) ==
    LET avg == AvgLoad
    IN  IF avg.panicked THEN Panic
        ELSE Scan(Search(Hash(key)), avg.val, {})

\* Ring::get_least
GetLeastResult(key) ==
    IF DOMAIN host_by_hash = {} THEN None
    ELSE LET avg == AvgLoad
         IN  IF avg.panicked THEN Panic
             ELSE Scan(Search(Hash(key)), avg.val, {})

-----------------------------------------------------------------------------
(* Mutators, as the values they leave behind. *)

RECURSIVE AddLoopIndexFirst(_, _, _, _)
\* the loop of Ring::add with the insert into host_by_hash made for the
\* first replica alone
AddLoopIndexFirst(hostname, i, hs, hbh) ==
    IF i >= config.replication_factor
    THEN [hashes |-> hs, host_by_hash |-> hbh]
    ELSE LET hash == Position(hostname, i)
         IN  AddLoopIndexFirst(hostname, i + 1, Append(hs, hash),
                               IF i = 0 THEN MapInsert(hbh, hash, hostname)
                               ELSE hbh)

RECURSIVE AddLoopShort(_, _, _, _)
\* the loop of Ring::add stopping one replica early
AddLoopShort(hostname, i, hs, hbh) ==
    IF i >= config.replication_factor - 1
    THEN [hashes |-> hs, host_by_hash |-> hbh]
    ELSE LET hash == Position(hostname, i)
         IN  AddLoopShort(hostname, i + 1, Append(hs, hash),
                          MapInsert(hbh, hash, hostname))

RECURSIVE AddLoop(_, _, _, _)
\* the loop of Ring::add from replica i: [hashes, host_by_hash]
AddLoop(hostname, i, hs, hbh) ==
    IF i >= config.replication_factor
    THEN [hashes |-> hs, host_by_hash |-> hbh]
    ELSE LET hash == Position(hostname, i)
         IN  AddLoop(hostname, i + 1, Append(hs, hash),
                     MapInsert(hbh, hash, hostname))

RECURSIVE RemoveLoop(_, _, _, _)
\* the loop of Ring::remove from replica i: [hashes, host_by_hash, panicked];
\* position(..).unwrap() panics when the hash is not in the vector, after
\* the map entry has been removed
RemoveLoop(hostname, i, hs, hbh) ==
    IF i >= config.replication_factor
    THEN [hashes |-> hs, host_by_hash |-> hbh, panicked |-> FALSE]
    ELSE LET hash == Position(hostname, i)
             hbh2 == MapRemove(hbh, hash)
             at == IndicesOf(hs, hash)
         IN  IF at = {}
             THEN [hashes |-> hs, host_by_hash |-> hbh2, panicked |-> TRUE]
             ELSE RemoveLoop(hostname, i + 1, RemoveAt(hs, Min(at)), hbh2)

\* host_by_name with the load of hostname replaced (the RefCell write)
WithLoad(hostname, l) ==
    [host_by_name EXCEPT ![hostname] = [name |-> hostname, load |-> l]]

\* Ring::set_load adding the new value without taking the old one off
SetLoadBodyNoDelta(hostname, v) ==
    IF AddOverflows(load, v) /\ overflow_checks
    THEN [load |-> load, hostload |-> v, panicked |-> TRUE]
    ELSE [load |-> load + v, hostload |-> v, panicked |-> FALSE]

\* the body of Ring::set_load on a registered host:
\* [load, hostload, panicked]
SetLoadBody(hostname, v) ==
    LET old == host_by_name[hostname].load
    IN  IF SubOverflows(load, old) /\ overflow_checks
        THEN [load |-> load, hostload |-> old, panicked |-> TRUE]
        ELSE IF AddOverflows(load - old, v) /\ overflow_checks
        THEN [load |-> load - old, hostload |-> v, panicked |-> TRUE]
        ELSE [load |-> load - old + v, hostload |-> v, panicked |-> FALSE]

\* the body of Ring::inc_load on a registered host
IncLoadBody(hostname) ==
    LET old == host_by_name[hostname].load
    IN  IF AddOverflows(load, 1) /\ overflow_checks
        THEN [load |-> load, hostload |-> old, panicked |-> TRUE]
        ELSE IF AddOverflows(old, 1) /\ overflow_checks
        THEN [load |-> load + 1, hostload |-> old, panicked |-> TRUE]
        ELSE [load |-> load + 1, hostload |-> old + 1, panicked |-> FALSE]

\* the body of Ring::decr_load on a registered host
DecrLoadBody(hostname) ==
    LET old == host_by_name[hostname].load
    IN  IF SubOverflows(load, 1) /\ overflow_checks
        THEN [load |-> load, hostload |-> old, panicked |-> TRUE]
        ELSE IF SubOverflows(old, 1) /\ overflow_checks
        THEN [load |-> load - 1, hostload |-> old, panicked |-> TRUE]
        ELSE [load |-> load - 1, hostload |-> old - 1, panicked |-> FALSE]

\* the values the model follows: a host load up to maxload, an aggregate
\* load up to maxtotal, wrapped values down to 2^64 - MaxWrap
InBounds(b, maxload, maxtotal) ==
    /\ b.load >= 0 - MaxWrap /\ b.load <= maxtotal
    /\ b.hostload >= 0 - MaxWrap /\ b.hostload <= maxload

-----------------------------------------------------------------------------
(* The calls. *)

\* the record of a call: the method, its string argument, its numeric
\* argument, and whether the string named a registered host when the call
\* was made
Called(op, arg, val) ==
    [op |-> op, arg |-> arg, val |-> val,
     known |-> arg \in DOMAIN host_by_name]

\* how a call ends
Ends(r) ==
    /\ ret' = r
    /\ status' = IF r.tag = "Panic" THEN "panicked"
                  ELSE IF r.tag = "Hang" THEN "hung" ELSE "running"

\* Ring::new(config)
Init ==
    /\ config \in Configs
    /\ overflow_checks \in BOOLEAN
    /\ hashes = << >>
    /\ host_by_hash = [ h \in {} |-> "" ]
    /\ host_by_name = [ n \in {} |-> [name |-> n, load |-> 0] ]
    /\ load = 0
    /\ status = "running"
    /\ call = [op |-> "new", arg |-> "", val |-> 0, known |-> FALSE]
    /\ ret = Unit

\* Ring::add without the test for a registered name
AddUnguarded(hostname) ==
    /\ status = "running"
    /\ call' = Called("add", hostname, 0)
    /\ Ends(Unit)
    /\ LET r == AddLoop(hostname, 0, hashes, host_by_hash)
       IN  /\ host_by_name' =
                  MapInsert(host_by_name, hostname,
                            [name |-> hostname, load |-> 0])
           /\ host_by_hash' = r.host_by_hash
           /\ hashes' = SortAsc(r.hashes)
           /\ UNCHANGED load
    /\ UNCHANGED <<config, overflow_checks>>

Add(hostname) ==
    /\ status = "running"
    /\ call' = Called("add", hostname, 0)
    /\ Ends(Unit)
    /\ IF hostname \in DOMAIN host_by_name
       THEN UNCHANGED ring
       ELSE LET r == AddLoop(hostname, 0, hashes, host_by_hash)
            IN  /\ host_by_name' =
                       MapInsert(host_by_name, hostname,
                                 [name |-> hostname, load |-> 0])
                /\ host_by_hash' = r.host_by_hash
                /\ hashes' = SortAsc(r.hashes)
                /\ UNCHANGED load
    /\ UNCHANGED <<config, overflow_checks>>

Remove(hostname) ==
    /\ status = "running"
    /\ call' = Called("remove", hostname, 0)
    /\ LET r == RemoveLoop(hostname, 0, hashes, host_by_hash)
       IN  /\ hashes' = r.hashes
           /\ host_by_hash' = r.host_by_hash
           /\ host_by_name' = IF r.panicked THEN host_by_name
                               ELSE MapRemove(host_by_name, hostname)
           /\ Ends(IF r.panicked THEN Panic ELSE Unit)
    /\ UNCHANGED <<config, overflow_checks, load>>

Get(key) ==
    /\ status = "running"
    /\ call' = Called("get", key, 0)
    /\ Ends(GetResult(key))
    /\ UNCHANGED <<config, overflow_checks, ring>>

\* a get_least that counts the request against the host it returns
GetLeastCounting(key) ==
    /\ status = "running"
    /\ call' = Called("get_least", key, 0)
    /\ Ends(GetLeastResult(key))
    /\ IF GetLeastResult(key).tag = "Some"
       THEN /\ load' = load + 1
            /\ host_by_name' =
                   WithLoad(GetLeastResult(key).name,
                            host_by_name[GetLeastResult(key).name].load + 1)
       ELSE UNCHANGED <<load, host_by_name>>
    /\ UNCHANGED <<config, overflow_checks, hashes, host_by_hash>>

GetLeast(key) ==
    /\ status = "running"
    /\ call' = Called("get_least", key, 0)
    /\ Ends(GetLeastResult(key))
    /\ UNCHANGED <<config, overflow_checks, ring>>

\* a load call on a registered host, b the outcome of its body
LoadCall(hostname, b) ==
    /\ load' = b.load
    /\ host_by_name' = WithLoad(hostname, b.hostload)
    /\ Ends(IF b.panicked THEN Panic ELSE Unit)

SetLoad(hostname, v) ==
    /\ status = "running"
    /\ call' = Called("set_load", hostname, v)
    /\ IF hostname \in DOMAIN host_by_name
       THEN /\ InBounds(SetLoadBody(hostname, v), MaxLoad, MaxTotal)
            /\ LoadCall(hostname, SetLoadBody(hostname, v))
       ELSE Ends(Unit) /\ UNCHANGED <<load, host_by_name>>
    /\ UNCHANGED <<config, overflow_checks, hashes, host_by_hash>>

\* inc_load, followed while the loads stay within the given bounds
IncLoadWithin(hostname, maxload, maxtotal) ==
    /\ status = "running"
    /\ call' = Called("inc_load", hostname, 0)
    /\ IF hostname \in DOMAIN host_by_name
       THEN /\ InBounds(IncLoadBody(hostname), maxload, maxtotal)
            /\ LoadCall(hostname, IncLoadBody(hostname))
       ELSE Ends(Unit) /\ UNCHANGED <<load, host_by_name>>
    /\ UNCHANGED <<config, overflow_checks, hashes, host_by_hash>>

IncLoad(hostname) == IncLoadWithin(hostname, MaxLoad, MaxTotal)

DecrLoad(hostname) ==
    /\ status = "running"
    /\ call' = Called("decr_load", hostname, 0)
    /\ IF hostname \in DOMAIN host_by_name
       THEN /\ InBounds(DecrLoadBody(hostname), MaxLoad, MaxTotal)
            /\ LoadCall(hostname, DecrLoadBody(hostname))
       ELSE Ends(Unit) /\ UNCHANGED <<load, host_by_name>>
    /\ UNCHANGED <<config, overflow_checks, hashes, host_by_hash>>

AvgLoadCall ==
    /\ status = "running"
    /\ call' = Called("avg_load", "", 0)
    /\ LET a == AvgLoad
       IN  Ends(IF a.panicked THEN Panic ELSE Result("F64", "", a.val))
    /\ UNCHANGED <<config, overflow_checks, ring>>

Next ==
    \/ \E h \in Names : Add(h)
    \/ \E h \in Names : Remove(h)
    \/ \E k \in Keys : Get(k)
    \/ \E k \in Keys : GetLeast(k)
    \/ \E h \in Names, v \in LoadValues : SetLoad(h, v)
    \/ \E h \in Names : IncLoad(h)
    \/ \E h \in Names : DecrLoad(h)
    \/ AvgLoadCall

Spec == Init /\ [][Next]_vars

-----------------------------------------------------------------------------
(* Membership changes and lookups alone, on three host names. *)

NextTopology ==
    \/ \E h \in MoreNames : Add(h)
    \/ \E h \in MoreNames : Remove(h)
    \/ \E k \in Keys : Get(k)
    \/ \E k \in Keys : GetLeast(k)

SpecTopology == Init /\ [][NextTopology]_vars

-----------------------------------------------------------------------------
(* Bounded-load placement: the hosts are added first, then every unit of   *)
(* load is placed by get_least followed by inc_load of the host returned.  *)

AddFirst(hostname) ==
    /\ call.op \in {"new", "add"}
    /\ Add(hostname)

Place ==
    /\ call.op = "get_least"
    /\ ret.tag = "Some"
    /\ IncLoadWithin(ret.name, MaxPlaced, MaxPlaced)

NextBounded ==
    \/ \E h \in MoreNames : AddFirst(h)
    \/ \E k \in Keys : GetLeast(k)
    \/ Place

SpecBounded == Init /\ [][NextBounded]_vars

-----------------------------------------------------------------------------
(* The scan of get_least over three hosts with loads written by set_load. *)

\* the keys of the scan; "b1" hashes onto the last but one position of
\* the ring of the three hosts
ScanKeys == {"b1", "a10", "8.8.8.8"}

NextScan ==
    \/ \E h \in MoreNames : Add(h)
    \/ \E h \in MoreNames, v \in 0 .. MaxLoad : SetLoad(h, v)
    \/ \E k \in ScanKeys : GetLeast(k)

SpecScan == Init /\ [][NextScan]_vars

-----------------------------------------------------------------------------
(* Properties. *)

\* every string the hash table covers, as a lookup key
AllKeys == DOMAIN HashTable

RECURSIVE SumLoads(_)
\* the sum of the load counters of the hosts in S
SumLoads(S) ==
    IF S = {} THEN 0
    ELSE LET h == CHOOSE x \in S : TRUE
         IN  host_by_name[h].load + SumLoads(S \ {h})

\* C1: after any sequence of add, remove, set_load, inc_load and decr_load
\* calls that returned, the aggregate load equals the sum of the load
\* counters of the registered hosts.
AggregateLoadIsSum ==
    status = "running" => load = SumLoads(DOMAIN host_by_name)

\* C2: remove(name) of a name that is not registered returns and leaves
\* the positions, both indices and all loads unchanged.
RemoveUnknownIsNoOp ==
    [][ ( /\ status = "running"
          /\ call'.op = "remove"
          /\ call'.arg \notin DOMAIN host_by_name )
        => (status' = "running" /\ UNCHANGED ring) ]_vars

\* C3: decr_load never underflows: no decr_load call aborts, and a
\* decr_load of a host at load 0, or with the aggregate at 0, leaves that
\* counter at 0 instead of wrapping below zero.
DecrLoadNeverUnderflows ==
    [][ \A h \in Names :
          ( /\ status = "running"
            /\ call'.op = "decr_load"
            /\ call'.arg = h
            /\ call'.known )
          => /\ status' = "running"
             /\ host_by_name[h].load = 0 => host_by_name'[h].load = 0
             /\ load = 0 => load' = 0 ]_vars

\* C4: while load is placed by get_least followed by inc_load of the host
\* it returned, whenever get_least selects a host no registered host's load
\* exceeds avg_load() by more than 1.
BoundedLoad ==
    (call.op = "get_least" /\ ret.tag = "Some")
    => \A h \in DOMAIN host_by_name :
          /\ ~AvgLoad.panicked
          /\ AvgLoad.val.kind = "fin"
          /\ host_by_name[h].load * AvgLoad.val.den
                <= AvgLoad.val.num + AvgLoad.val.den

\* get_least passed over the successor get selects, which is at the cap,
\* after load was placed
BoundedLoadWitness ==
    /\ call.op = "get_least"
    /\ ret.tag = "Some"
    /\ load >= 2
    /\ GetResult(call.arg).tag = "Some"
    /\ GetResult(call.arg).name # ret.name
    /\ ~UnderCap(host_by_name[GetResult(call.arg).name].load, AvgLoad.val)

\* C5: get_least always terminates: no call of get_least scans for ever.
GetLeastTerminates ==
    ~(call.op = "get_least" /\ status = "hung")

\* C6: with at least one registered host, get(k) returns the name of a
\* registered host for every key k.
GetReturnsRegisteredHost ==
    (status = "running" /\ DOMAIN host_by_name # {})
    => \A k \in AllKeys :
          /\ GetResult(k).tag = "Some"
          /\ GetResult(k).name \in DOMAIN host_by_name

\* C7: remove(h) of a registered host changes get(k) only for the keys
\* that resolved to h: every other key keeps its host, and no key
\* resolves to h afterwards.
RemoveDisruptsOnlyOwnKeys ==
    [][ ( /\ status = "running"
          /\ call'.op = "remove"
          /\ call'.arg \in DOMAIN host_by_name )
        => \A k \in AllKeys :
              /\ GetResult(k) # Some(call'.arg) => GetResult(k)' = GetResult(k)
              /\ GetResult(k)' # Some(call'.arg) ]_vars

\* C8: add(h) of a new host to a non-empty ring moves keys only to h: for
\* every key k, get(k) afterwards is what get(k) returned before, or h.
AddMovesKeysOnlyToNewHost ==
    [][ ( /\ status = "running"
          /\ call'.op = "add"
          /\ ~call'.known
          /\ DOMAIN host_by_name # {} )
        => \A k \in AllKeys :
              GetResult(k)' \in {GetResult(k), Some(call'.arg)} ]_vars

\* a third host was added, it took over some key and left another key
\* with each of the two older hosts
AddMovesKeysWitness ==
    /\ call.op = "add"
    /\ ~call.known
    /\ status = "running"
    /\ Cardinality(DOMAIN host_by_name) = 3
    /\ \E k \in AllKeys : GetResult(k) = Some(call.arg)
    /\ \A g \in DOMAIN host_by_name : \E k \in AllKeys : GetResult(k) = Some(g)

\* the indices of the sorted sequence that resolve to host h
ResolvingTo(h) ==
    { i \in 1 .. Len(hashes) :
        hashes[i] \in DOMAIN host_by_hash /\ host_by_hash[hashes[i]] = h }

\* none of the positions of h is derived by another registered host
NoCollision(h) ==
    \A g \in DOMAIN host_by_name \ {h} : Positions(g) \cap Positions(h) = {}

\* C9: add(h) of an unregistered name creates h with load 0 and grows the
\* sorted sequence by replication_factor positions; absent collisions
\* exactly replication_factor positions resolve to h; the sorted sequence
\* always holds replication_factor positions per registered host.
AddPlacesReplicas ==
    [][ /\ \A h \in MoreNames :
             ( /\ status = "running"
               /\ call'.op = "add"
               /\ call'.arg = h
               /\ ~call'.known )
             => /\ status' = "running"
                /\ h \in DOMAIN host_by_name'
                /\ host_by_name'[h].load = 0
                /\ Len(hashes') = Len(hashes) + config.replication_factor
                /\ NoCollision(h)'
                     => Cardinality(ResolvingTo(h)')
                          = config.replication_factor
        /\ status' = "running"
           => Len(hashes') = config.replication_factor
                               * Cardinality(DOMAIN host_by_name') ]_vars

\* a host with load was removed and added again next to another host
AddPlacesReplicasWitness ==
    /\ call.op = "add"
    /\ ~call.known
    /\ status = "running"
    /\ load > 0
    /\ host_by_name[call.arg].load = 0
    /\ Cardinality(DOMAIN host_by_name) = 2
    /\ NoCollision(call.arg)
    /\ Cardinality(ResolvingTo(call.arg)) = config.replication_factor

\* C10: remove(h) of a registered host leaves no position resolving to h,
\* takes h out of hosts(), and keeps every position of every other host
\* present and resolving to its host; removing the only host empties the
\* sorted sequence and hosts().
RemoveKeepsOtherHosts ==
    [][ \A h \in MoreNames :
          ( /\ status = "running"
            /\ call'.op = "remove"
            /\ call'.arg = h
            /\ call'.known )
          => /\ status' = "running"
             /\ h \notin DOMAIN host_by_name'
             /\ ResolvingTo(h)' = {}
             /\ \A p \in DOMAIN host_by_hash :
                   host_by_hash[p] # h
                   => /\ p \in DOMAIN host_by_hash'
                      /\ host_by_hash'[p] = host_by_hash[p]
                      /\ IndicesOf(hashes', p) # {}
             /\ DOMAIN host_by_name = {h}
                   => (hashes' = << >> /\ DOMAIN host_by_name' = {}) ]_vars

\* C11: add(h) of a registered host returns and leaves the whole ring
\* unchanged: the sorted positions, both indices, the load of h and the
\* aggregate load.
AddIsIdempotent ==
    [][ ( /\ status = "running"
          /\ call'.op = "add"
          /\ call'.arg \in DOMAIN host_by_name )
        => (status' = "running" /\ UNCHANGED ring) ]_vars

\* a host that carries load was added a second time
AddIsIdempotentWitness ==
    /\ call.op = "add"
    /\ call.known
    /\ status = "running"
    /\ host_by_name[call.arg].load > 0
    /\ load > 0

\* C12: with no host registered, get(k) and get_least(k) return the
\* absent result for every key, and a lookup made in that state returned
\* it without aborting.
EmptyRingReturnsNone ==
    (status # "panicked" /\ DOMAIN host_by_name = {})
    => /\ \A k \in AllKeys : GetResult(k) = None /\ GetLeastResult(k) = None
       /\ call.op \in {"get", "get_least"}
             => (status = "running" /\ ret = None)

\* get_least was called after the last host, which carried load, had
\* been removed
EmptyRingReturnsNoneWitness ==
    /\ call.op = "get_least"
    /\ DOMAIN host_by_name = {}
    /\ load > 0
    /\ ret = None
    /\ status = "running"

\* C13: get(k) and get_least(k) change no part of the ring, and a get(k)
\* repeated on the same ring returns what it returned before.
LookupsArePure ==
    [][ /\ call'.op \in {"get", "get_least"} => UNCHANGED ring
        /\ ( /\ call.op = "get" /\ call'.op = "get"
              /\ call'.arg = call.arg )
            => ret' = ret ]_vars

\* get returned a host that carries load, on a ring where get_least finds
\* another host for the same key
LookupsArePureWitness ==
    /\ call.op = "get"
    /\ ret.tag = "Some"
    /\ host_by_name[ret.name].load > 0
    /\ GetLeastResult(call.arg).tag = "Some"
    /\ GetLeastResult(call.arg) # ret

\* C14: set_load, inc_load and decr_load of an unregistered name return
\* and change nothing; set_load(h, v) of a registered host returns with the
\* load of h at v and the aggregate changed by v minus the old load of h,
\* and changes no other host and no position.
LoadCallsFrame ==
    [][ \A h \in Names :
          /\ ( /\ status = "running"
                /\ call'.op \in {"set_load", "inc_load", "decr_load"}
                /\ call'.arg = h
                /\ ~call'.known )
              => (status' = "running" /\ UNCHANGED ring)
          /\ ( /\ status = "running"
                /\ call'.op = "set_load"
                /\ call'.arg = h
                /\ call'.known )
              => /\ status' = "running"
                 /\ DOMAIN host_by_name' = DOMAIN host_by_name
                 /\ host_by_name'[h].load = call'.val
                 /\ load' = load - host_by_name[h].load + call'.val
                 /\ \A g \in DOMAIN host_by_name \ {h} :
                       host_by_name'[g] = host_by_name[g]
                 /\ UNCHANGED <<hashes, host_by_hash>> ]_vars

\* set_load wrote the load of one host next to a host that keeps its own
\* load, and the aggregate is their sum
LoadCallsFrameWitness ==
    /\ call.op = "set_load"
    /\ call.known
    /\ call.val = 1
    /\ status = "running"
    /\ host_by_name[call.arg].load = 1
    /\ \E g \in DOMAIN host_by_name \ {call.arg} : host_by_name[g].load = 2
    /\ load = 3

\* ceil(((aggregate + 1) / host_count) * load_factor) with the host count
\* floored to 1
AvgLoadFloored ==
    LET n == Cardinality(DOMAIN host_by_name)
    IN  F64Ceil(F64Mul(F64DivLen(AsF64(load + 1), IF n = 0 THEN 1 ELSE n),
                       config.load))

\* C15: avg_load() returns ceil(((aggregate + 1) / host_count) *
\* load_factor) with the denominator floored to 1: in every state, the
\* ring without hosts included, a finite value that is at least 1.
AvgLoadFiniteAtLeastOne ==
    call.op = "avg_load"
    => /\ status = "running"
       /\ ret.tag = "F64"
       /\ ret.val = AvgLoadFloored
       /\ ret.val.kind \in {"fin", "big"}
       /\ ret.val.kind = "fin" => ret.val.num >= ret.val.den

\* C16: in every state a call returned to, the positions of the sorted
\* sequence are exactly the positions of the position->host index, and
\* every indexed host is registered.
BijectiveConsistency ==
    status = "running"
    => /\ { hashes[i] : i \in 1 .. Len(hashes) } = DOMAIN host_by_hash
       /\ \A p \in DOMAIN host_by_hash :
             host_by_hash[p] \in DOMAIN host_by_name

\* the offsets d, in circular successor order from the position get(key)
\* selects, at which the position's host has load + 1 <= avg_load()
UnderCapOffsets(key) ==
    LET n == Len(hashes)
        start == Search(Hash(key))
    IN  { d \in 0 .. (n - 1) :
            LET p == hashes[((start + d) % n) + 1]
            IN  /\ p \in DOMAIN host_by_hash
                /\ UnderCap(host_by_name[host_by_hash[p]].load, AvgLoad.val) }

\* the host of the first of these positions
FirstUnderCap(key) ==
    LET n == Len(hashes)
        start == Search(Hash(key))
    IN  host_by_hash[hashes[((start + Min(UnderCapOffsets(key))) % n) + 1]]

\* C17: get_least(k) returns the host of the first position, in circular
\* successor order from the position get(k) selects and over every
\* position of the ring, whose host has load + 1 <= avg_load().
GetLeastFirstUnderCap ==
    ( /\ call.op = "get_least"
      /\ DOMAIN host_by_hash # {}
      /\ ~AvgLoad.panicked
      /\ UnderCapOffsets(call.arg) # {} )
    => /\ status = "running"
       /\ ret = Some(FirstUnderCap(call.arg))

\* the stored positions
Stored == { hashes[i] : i \in 1 .. Len(hashes) }

\* C18: on a ring with positions, search(hash) is the index of the
\* smallest stored position at or above the hash (an equal one is
\* selected), and index 0, the smallest stored position, when no stored
\* position is at or above it; get(k) resolves the position at that index.
SearchFindsSuccessor ==
    hashes # << >>
    => /\ \A k \in AllKeys :
             LET at == Search(Hash(k))
                 above == { p \in Stored : p >= Hash(k) }
             IN  /\ at + 1 \in 1 .. Len(hashes)
                 /\ above # {} => /\ hashes[at + 1] = Min(above)
                                  /\ \A j \in 1 .. at : hashes[j] < Hash(k)
                 /\ above = {} => (at = 0 /\ hashes[1] = Min(Stored))
       /\ ( /\ call.op = "get" /\ status = "running"
             /\ hashes[Search(Hash(call.arg)) + 1] \in DOMAIN host_by_hash )
           => ret = Some(host_by_hash[hashes[Search(Hash(call.arg)) + 1]])

\* get was called with a key above every stored position and returned the
\* host of the smallest one, on a ring where another key hashes exactly
\* onto a stored position that search selects
SearchFindsSuccessorWitness ==
    /\ call.op = "get"
    /\ status = "running"
    /\ hashes # << >>
    /\ \A p \in Stored : p < Hash(call.arg)
    /\ Search(Hash(call.arg)) = 0
    /\ ret = Some(host_by_hash[Min(Stored)])
    /\ \E k \in AllKeys :
          Hash(k) \in Stored /\ hashes[Search(Hash(k)) + 1] = Hash(k)

\* C19: the sequence of ring positions is ascending in every state: after
\* every add and every remove, and through all load calls and lookups.
HashesAscending ==
    \A i, j \in 1 .. Len(hashes) : i < j => hashes[i] <= hashes[j]

\* a host was removed from between the positions of two others, after
\* three adds had each sorted the sequence
HashesAscendingWitness ==
    /\ call.op = "remove"
    /\ call.known
    /\ status = "running"
    /\ Cardinality(DOMAIN host_by_name) = 2
    /\ \E i, j \in 1 .. Len(hashes) :
          /\ i < j
          /\ host_by_hash[hashes[i]] # host_by_hash[hashes[j]]
          /\ Position(call.arg, 0) > hashes[i]
          /\ Position(call.arg, 0) < hashes[j]

\* C20: colliding positions are tolerated: add(h) leaves every position h
\* derives resolving to h, the host added last, and on a ring with a
\* registered host (after either of two colliding hosts was removed
\* included) get and get_least return a registered host without
\* aborting.
CollisionsTolerated ==
    [][ /\ \A h \in MoreNames :
             ( /\ status = "running"
               /\ call'.op = "add"
               /\ call'.arg = h
               /\ ~call'.known )
             => \A p \in Positions(h) :
                   p \in DOMAIN host_by_hash' /\ host_by_hash'[p] = h
        /\ ( /\ status = "running"
              /\ call'.op \in {"get", "get_least"}
              /\ DOMAIN host_by_name # {} )
            => /\ status' = "running"
               /\ ret'.tag = "Some"
               /\ ret'.name \in DOMAIN host_by_name ]_vars

====
